---- MODULE Spec2Model ----
(***************************************************************************)
(* healthcheck-python: per-process Checkers (health.py, class HealthCheck) *)
(* publish snapshot files into a shared directory; a Collector (server.py, *)
(* class HealthCollector) reads them back and reduces them to one verdict, *)
(* exposed over HTTP by make_wsgi_app.                                     *)
(*                                                                         *)
(* Time is the integer clock `now` (time.time() in seconds).  A probe      *)
(* result's own 'timestamp' and 'response_time' fields are written but     *)
(* never read by any operation, and are left out of the result records.    *)
(*                                                                         *)
(* One process's Checker is modelled step by step: a tick runs its probes  *)
(* and opens (truncates) the snapshot file in one step, and writes it in   *)
(* the next, so that a reader can find the file torn.  Other processes     *)
(* appear through the files they leave in the directory.  `resp` holds     *)
(* what a request returned only in the state right after the request: it   *)
(* is a return value, not program state, and every other step clears it,   *)
(* so in a state with a response `files` and `now` are what that request   *)
(* read.                                                                   *)
(*                                                                         *)
(* The specifications share the actions: Spec (the whole system),         *)
(* SpecChecker (one Checker, every probe behaviour), SpecStore (the        *)
(* Collector over arbitrary directory contents), SpecLife (one Checker     *)
(* constructed, started and stopped by separate calls), SpecTwice (a       *)
(* process that calls init_check again) and SpecPaced (a Checker and its   *)
(* process keeping the pace of check-ins and ticks).                       *)
(***************************************************************************)
EXTENDS Integers, Sequences, FiniteSets, TLC

\* ------------------------------------------------------------------ bounds
\* seconds the clock may advance past Epoch
MaxTime == 2
\* probes one Checker may register
MaxChecks == 2

\* ------------------------------------------------------- inputs drawn from
\* time.time() when the model starts: far beyond every timeout, as the
\* Unix clock is
Epoch == 10
\* the process whose Checker is modelled step by step (its pid); the name
\* also stands for the first HealthCheck object the process constructs
Procs == {"11"}
\* the HealthCheck object a second init_check of the process constructs
Replacement(p) == p \o "#2"
\* every HealthCheck object
Checkers == Procs \cup {Replacement(p) : p \in Procs}
\* os.getpid() in the thread of a HealthCheck object
Pid(c) == IF c \in Procs THEN c ELSE CHOOSE p \in Procs : Replacement(p) = c
\* __name__ of the i-th function a process registers
ProbeName(i) == "check" \o ToString(i)
TimeoutValues == {0, 1}
\* a file of the shared directory that this process does not write: another
\* process's snapshot, or anything else found there
ForeignFiles == {"12-B.json"}

\* prefix given to init_check by each process (caller name)
Prefix(p) == "A"

\* f"{os.getpid()}-{self.prefix}.json"
FileOf(p) == Pid(p) \o "-" \o Prefix(p) \o ".json"

FileNames == {FileOf(p) : p \in Checkers} \cup ForeignFiles

\* an output value json.dump cannot serialize (an arbitrary Python object)
Unserializable == "<object>"

\* What one invocation of a probe does: return a (passed, output) pair,
\* raise an Exception with a text, or return something that is no pair.
ProbeOutcomes ==
    { [kind |-> "return", passed |-> TRUE,  output |-> "ok"],
      [kind |-> "return", passed |-> FALSE, output |-> "bad"],
      [kind |-> "return", passed |-> TRUE,  output |-> Unserializable],
      [kind |-> "raise",  text |-> "boom"],
      [kind |-> "nonpair"] }

\* str(exc) of the TypeError raised by `passed, output = check()` on a non-pair
UnpackErrorText == "cannot unpack"


\* What the environment may leave in a foreign file.
Garbage == [kind |-> "garbage"]          \* text that is not JSON
Undecodable == [kind |-> "undecodable"]  \* bytes that are not text in the locale's encoding
JsonOther == [kind |-> "jsonother"]      \* valid JSON without a Snapshot's keys, e.g. {}
Subdir == [kind |-> "subdir"]            \* a subdirectory

VARIABLES
    now,             \* time.time()
    envDir,          \* what PY_HEALTH_MULTIPROC_DIR names: "unset", "missing", "notdir", "dir"
    envPeriod,       \* what PY_HEALTH_RUN_PERIOD holds: "unset", or its text
    files,           \* the shared directory: file name -> content
    pc,              \* position of each HealthCheck object's thread
    timeout,         \* HealthCheck.timeout
    dump_dir,        \* HealthCheck._dump_dir ("None" or "dir")
    checks,          \* HealthCheck._checks
    latest_checkin,  \* HealthCheck._latest_checkin
    liveness,        \* HealthCheck._liveness
    stop_event,      \* HealthCheck._stop_event
    calls,           \* what each probe did in the tick in flight, in call order
    message,         \* _check_health's local `message` of the tick in flight
    coll_dir,        \* HealthCollector._dump_dir ("None" or "dir"; "new" before construction)
    query,           \* the Collector operation in flight, after its os.listdir
    resp             \* what the step just taken returned, if it ended a request
                     \* or a start()

vars == <<now, envDir, envPeriod, files, pc, timeout, dump_dir, checks, latest_checkin,
          liveness, stop_event, calls, message, coll_dir, query, resp>>

checkerVars == <<pc, timeout, dump_dir, checks, latest_checkin, liveness,
                 stop_event, calls, message>>

Absent == [kind |-> "absent"]
Torn == [kind |-> "torn"]
NoMessage == [kind |-> "none"]
NoQuery == [op |-> "none"]
NoResp == [kind |-> "none"]
Snap(data) == [kind |-> "snap", data |-> data]

\* ------------------------------------------------------------- health.py

\* os.environ.get('PY_HEALTH_RUN_PERIOD', 5): the int default, or the
\* environment's text as it is (a str)
RUN_PERIOD ==
    IF envPeriod = "unset" THEN [type |-> "int", value |-> "5"]
    ELSE [type |-> "str", value |-> envPeriod]

check_reduce_last(passed, result) == result.passed

check_reduce(passed, result) == passed /\ result.passed

RECURSIVE reduce(_, _)
reduce(rs, initial) ==
    IF rs = <<>> THEN initial
    ELSE reduce(Tail(rs), check_reduce(initial, Head(rs)))

json_output_handler(prefix, rs, passed, alive, tmo) ==
    [name |-> prefix, status |-> passed, liveness |-> alive,
     timestamp |-> now, timeout |-> tmo, results |-> rs]

run_check_repr(check, outcome) ==
    LET pair == IF outcome.kind = "return"
                THEN <<outcome.passed, outcome.output>>
                ELSE IF outcome.kind = "raise"
                THEN <<FALSE, "Exception('" \o outcome.text \o "')">>
                ELSE <<FALSE, UnpackErrorText>>
    IN [checker |-> check, output |-> pair[2], passed |-> pair[1]]

\* HealthCheck.run_check: the probe call inside try/except Exception
run_check(check, outcome) ==
    LET pair == IF outcome.kind = "return"
                THEN <<outcome.passed, outcome.output>>
                ELSE IF outcome.kind = "raise"
                THEN <<FALSE, outcome.text>>
                ELSE <<FALSE, UnpackErrorText>>
    IN [checker |-> check, output |-> pair[2], passed |-> pair[1]]

check_periodic_checkin_strict(p) ==
    LET time_diff == now - latest_checkin[p]
    IN [checker |-> Prefix(p) \o "-periodic-checkin",
        output |-> "",
        passed |-> IF time_diff >= timeout[p] THEN FALSE ELSE TRUE]

check_periodic_checkin(p) ==
    LET time_diff == now - latest_checkin[p]
    IN [checker |-> Prefix(p) \o "-periodic-checkin",
        output |-> "",
        passed |-> IF time_diff > timeout[p] THEN FALSE ELSE TRUE]

\* json.dump raises TypeError on a value it cannot encode
Serializable(msg) ==
    \A i \in 1..Len(msg.results) : msg.results[i].output /= Unserializable

InitDumpDir_no_isdir == IF envDir \in {"dir", "notdir"} THEN "dir" ELSE "None"

\* HealthCheck.__init__ / HealthCollector.__init__: the directory is looked
\* at once, at construction
InitDumpDir == IF envDir = "dir" THEN "dir" ELSE "None"

\* init_check: construct the Checker and start its thread
init_check(p, t) ==
    /\ pc[p] = "new"
    /\ pc' = [pc EXCEPT ![p] = "wait"]
    /\ timeout' = [timeout EXCEPT ![p] = t]
    /\ dump_dir' = [dump_dir EXCEPT ![p] = InitDumpDir]
    /\ resp' = NoResp
    /\ UNCHANGED <<now, envDir, envPeriod, files, checks, latest_checkin, liveness,
                   stop_event, calls, message, coll_dir, query>>

Constructed(p) == pc[p] /= "new"

\* create_health_check: construct the Checker without starting its thread
create_health_check(p, t) ==
    /\ pc[p] = "new"
    /\ pc' = [pc EXCEPT ![p] = "created"]
    /\ timeout' = [timeout EXCEPT ![p] = t]
    /\ dump_dir' = [dump_dir EXCEPT ![p] = InitDumpDir]
    /\ resp' = NoResp
    /\ UNCHANGED <<now, envDir, envPeriod, files, checks, latest_checkin, liveness,
                   stop_event, calls, message, coll_dir, query>>

\* HealthCheck.start, inherited from threading.Thread: the thread begins run
\* at the loop test; a thread that was started before, running or ended,
\* makes start raise RuntimeError
start(p) ==
    /\ Constructed(p)
    /\ IF pc[p] = "created"
       THEN /\ pc' = [pc EXCEPT ![p] = "wait"]
            /\ resp' = [kind |-> "return", op |-> "start"]
       ELSE /\ resp' = [kind |-> "raise", op |-> "start"]
            /\ UNCHANGED pc
    /\ UNCHANGED <<now, envDir, envPeriod, files, timeout, dump_dir, checks,
                   latest_checkin, liveness, stop_event, calls, message,
                   coll_dir, query>>

\* the module-level THREAD of a process: the object its latest init_check made
THREAD(p) == IF pc[Replacement(p)] /= "new" THEN Replacement(p) ELSE p

add_check(p, function) ==
    /\ Constructed(p)
    /\ Len(checks[p]) < MaxChecks
    /\ checks' = [checks EXCEPT ![p] = Append(@, function)]
    /\ resp' = NoResp
    /\ UNCHANGED <<now, envDir, envPeriod, files, pc, timeout, dump_dir, latest_checkin,
                   liveness, stop_event, calls, message, coll_dir, query>>

stop(p) ==
    /\ Constructed(p)
    /\ stop_event' = [stop_event EXCEPT ![p] = TRUE]
    /\ resp' = NoResp
    /\ UNCHANGED <<now, envDir, envPeriod, files, pc, timeout, dump_dir, checks,
                   latest_checkin, liveness, calls, message, coll_dir, query>>

healthy(p) ==
    /\ Constructed(p)
    /\ latest_checkin' = [latest_checkin EXCEPT ![p] = now]
    /\ resp' = NoResp
    /\ UNCHANGED <<now, envDir, envPeriod, files, pc, timeout, dump_dir, checks,
                   liveness, stop_event, calls, message, coll_dir, query>>

live(p) ==
    /\ Constructed(p)
    /\ liveness' = [liveness EXCEPT ![p] = TRUE]
    /\ resp' = NoResp
    /\ UNCHANGED <<now, envDir, envPeriod, files, pc, timeout, dump_dir, checks,
                   latest_checkin, stop_event, calls, message, coll_dir, query>>

\* self._stop_event.wait(self.interval): Event.wait returns at once when the
\* event is set, and otherwise compares the timeout with 0, which raises
\* TypeError for a str
WaitRaises(p) == ~stop_event[p] /\ RUN_PERIOD.type = "str"

\* HealthCheck.run, one iteration without a dump directory: _check_health is
\* skipped and the thread goes straight into the wait
run_idle(p) ==
    /\ pc[p] = "wait"
    /\ ~stop_event[p]
    /\ dump_dir[p] = "None"
    /\ pc' = [pc EXCEPT ![p] = IF WaitRaises(p) THEN "crashed" ELSE "idle"]
    /\ resp' = NoResp
    /\ UNCHANGED <<now, envDir, envPeriod, files, timeout, dump_dir, checks,
                   latest_checkin, liveness, stop_event, calls, message,
                   coll_dir, query>>

\* ... and the wait returns, back to the loop test
run_wake(p) ==
    /\ pc[p] = "idle"
    /\ pc' = [pc EXCEPT ![p] = "wait"]
    /\ resp' = NoResp
    /\ UNCHANGED <<now, envDir, envPeriod, files, timeout, dump_dir, checks,
                   latest_checkin, liveness, stop_event, calls, message,
                   coll_dir, query>>

\* HealthCheck.run: the loop ends once the stop event is set
run_exit(p) ==
    /\ pc[p] = "wait"
    /\ stop_event[p]
    /\ pc' = [pc EXCEPT ![p] = "exited"]
    /\ resp' = NoResp
    /\ UNCHANGED <<now, envDir, envPeriod, files, timeout, dump_dir, checks,
                   latest_checkin, liveness, stop_event, calls, message,
                   coll_dir, query>>

check_health_message_live_if_passed(p, outcomes) ==
    LET probed == [i \in 1..Len(checks[p]) |-> run_check(checks[p][i], outcomes[i])]
        rs == IF timeout[p] > 0
              THEN Append(probed, check_periodic_checkin(p))
              ELSE probed
        passed == reduce(rs, TRUE)
    IN json_output_handler(Prefix(p), rs, passed, liveness[p] /\ passed, timeout[p])

\* _check_health up to the reduction: one result per registered probe, the
\* check-in result when a timeout is set, and the message built from them
check_health_message(p, outcomes) ==
    LET probed == [i \in 1..Len(checks[p]) |-> run_check(checks[p][i], outcomes[i])]
        rs == IF timeout[p] > 0
              THEN Append(probed, check_periodic_checkin(p))
              ELSE probed
        passed == reduce(rs, TRUE)
    IN json_output_handler(Prefix(p), rs, passed, liveness[p], timeout[p])

\* HealthCheck.run, one tick: _check_health runs every probe, builds the
\* message and opens the snapshot file, which open(path, "w") truncates; a
\* directory removed since construction makes open raise
run_check_health(p, outcomes) ==
    /\ pc[p] = "wait"
    /\ ~stop_event[p]
    /\ dump_dir[p] /= "None"
    /\ IF envDir = "dir"
       THEN /\ message' = [message EXCEPT ![p] = check_health_message(p, outcomes)]
            /\ calls' = [calls EXCEPT ![p] = outcomes]
            /\ files' = [files EXCEPT ![FileOf(p)] = Torn]
            /\ pc' = [pc EXCEPT ![p] = "writing"]
       ELSE /\ pc' = [pc EXCEPT ![p] = "crashed"]
            /\ UNCHANGED <<files, message, calls>>
    /\ resp' = NoResp
    /\ UNCHANGED <<now, envDir, envPeriod, timeout, dump_dir, checks, latest_checkin,
                   liveness, stop_event, coll_dir, query>>

\* _check_health: json.dump into the open file, then close, then the wait of
\* run.  A TypeError from json.dump leaves the partial text behind and ends
\* the thread; a file unlinked in the meantime takes the text with it; a
\* TypeError from the wait ends the thread after the snapshot is written.
check_health_dump(p) ==
    /\ pc[p] = "writing"
    /\ IF Serializable(message[p])
       THEN /\ pc' = [pc EXCEPT ![p] = IF WaitRaises(p) THEN "crashed" ELSE "wait"]
            /\ files' = IF files[FileOf(p)] = Absent THEN files
                        ELSE [files EXCEPT ![FileOf(p)] = Snap(message[p])]
       ELSE /\ pc' = [pc EXCEPT ![p] = "crashed"]
            /\ UNCHANGED files
    /\ message' = [message EXCEPT ![p] = NoMessage]
    /\ calls' = [calls EXCEPT ![p] = <<>>]
    /\ resp' = NoResp
    /\ UNCHANGED <<now, envDir, envPeriod, timeout, dump_dir, checks, latest_checkin,
                   liveness, stop_event, coll_dir, query>>

\* ------------------------------------------------------------- server.py

Hostname == "host"

\* server.py's json_output_handler: the health report
health_output_handler(rs, passed) ==
    [hostname |-> Hostname,
     status |-> IF passed THEN "success" ELSE "failure",
     timestamp |-> now,
     results |-> rs]

json_liveness_handler(alive) ==
    [hostname |-> Hostname, liveness |-> alive, timestamp |-> now]

NotSetHealth == [status |-> "failure", message |-> "PY_HEALTH_MULTIPROC_DIR not set"]
NotSetLiveness == [liveness |-> "failure", message |-> "PY_HEALTH_MULTIPROC_DIR not set"]

\* os.listdir(self._dump_dir)
listdir == {f \in FileNames : files[f] /= Absent}

\* open(file) and json.load for one listed file, then the first subscript of
\* the loaded value: "data" when a Snapshot was loaded, "skip" when
\* json.JSONDecodeError was caught, "raise" for what nothing catches
\* (FileNotFoundError, IsADirectoryError, UnicodeDecodeError, and the
\* KeyError or TypeError of data['timeout'] / data['liveness'])
load(f) ==
    CASE files[f].kind = "snap" -> "data"
      [] files[f].kind \in {"torn", "garbage"} -> "skip"
      [] OTHER -> "raise"

health_status_stored(data) == data.status

health_status_inclusive(data) ==
    IF data.timeout = 0
    THEN data.status
    ELSE (now - data.timestamp <= data.timeout) /\ data.status

\* HealthCollector.health, lines 98-102: the status one snapshot contributes
health_status(data) ==
    IF data.timeout = 0
    THEN data.status
    ELSE (now - data.timestamp < data.timeout) /\ data.status

\* ... and the record appended to the report (data['status'] is overwritten
\* only in the else branch)
health_data(data) ==
    IF data.timeout = 0 THEN data
    ELSE [data EXCEPT !.status = health_status(data)]

health_overall_any(parsed) ==
    parsed = {} \/ \E f \in parsed : health_status(files[f].data)

\* all(statuses)
health_overall(parsed) == \A f \in parsed : health_status(files[f].data)

\* HealthCollector.health from the loop on, over the names os.listdir gave.
\* The report's entries are keyed by the file they were read from: the order
\* of os.listdir is unspecified and nothing depends on it.
health_scan(listing) ==
    IF \E f \in listing : load(f) = "raise"
    THEN [kind |-> "raise"]
    ELSE LET parsed == {f \in listing : load(f) = "data"}
             overall_status == health_overall(parsed)
         IN [kind |-> "return",
             status |-> overall_status,
             report |-> health_output_handler(
                            [f \in parsed |-> health_data(files[f].data)],
                            overall_status)]

\* all(liveness)
liveness_overall(parsed) == \A f \in parsed : files[f].data.liveness

liveness_scan(listing) ==
    IF \E f \in listing : load(f) = "raise"
    THEN [kind |-> "raise"]
    ELSE LET parsed == {f \in listing : load(f) = "data"}
             overall_liveness == liveness_overall(parsed)
         IN [kind |-> "return",
             status |-> overall_liveness,
             report |-> json_liveness_handler(overall_liveness)]

\* the `if not self._dump_dir` branch of health and liveness
not_set(op) ==
    [kind |-> "return", status |-> FALSE,
     report |-> IF op = "health" THEN NotSetHealth ELSE NotSetLiveness]

scan(op, listing) ==
    IF op = "health" THEN health_scan(listing) ELSE liveness_scan(listing)

\* json.dumps(output).encode("utf-8"): the JSON text of the report
JsonDumps(output) == [json |-> output]

StatusOK == "200 OK"
StatusError == "500 Internal Server Error"

health_app_always_ok(result) ==
    IF result.kind = "return"
    THEN [code |-> StatusOK, body |-> JsonDumps(result.report)]
    ELSE [code |-> StatusError, body |-> "A server error occurred."]

\* make_wsgi_app.health_app on what app() returned; an exception out of app()
\* is answered by wsgiref's handler with its own error page
health_app(result) ==
    IF result.kind = "return"
    THEN [code |-> IF result.status THEN StatusOK ELSE StatusError,
          body |-> JsonDumps(result.report)]
    ELSE [code |-> StatusError, body |-> "A server error occurred."]

\* make_server: the operation each path is bound to
Route(path) == IF path = "/healthcheck" THEN "health" ELSE "liveness"
Paths == {"/healthcheck", "/liveness"}

\* what a finished request leaves: the operation's outcome, what os.listdir
\* had returned to it, and the HTTP answer
Response(path, listing, result) ==
    [path |-> path, op |-> Route(path), kind |-> result.kind, result |-> result,
     listing |-> listing, http |-> health_app(result)]

\* HealthCollector.__init__
HealthCollector ==
    /\ coll_dir = "new"
    /\ coll_dir' = InitDumpDir
    /\ resp' = NoResp
    /\ UNCHANGED <<now, envDir, envPeriod, files, checkerVars, query>>

\* GET path, up to and including os.listdir: the not-set branch returns at
\* once, a missing directory makes os.listdir raise
get_listdir(path) ==
    /\ coll_dir /= "new"
    /\ query = NoQuery
    /\ IF coll_dir = "None"
       THEN /\ resp' = Response(path, {}, not_set(Route(path)))
            /\ UNCHANGED query
       ELSE IF envDir /= "dir"
       THEN /\ resp' = Response(path, {}, [kind |-> "raise"])
            /\ UNCHANGED query
       ELSE /\ query' = [path |-> path, op |-> Route(path), listing |-> listdir]
            /\ resp' = NoResp
    /\ UNCHANGED <<now, envDir, envPeriod, files, checkerVars, coll_dir>>

\* ... and the loop over the listed names, to the response
get_scan ==
    /\ query /= NoQuery
    /\ resp' = Response(query.path, query.listing, scan(query.op, query.listing))
    /\ query' = NoQuery
    /\ UNCHANGED <<now, envDir, envPeriod, files, checkerVars, coll_dir>>

get_storing_adjusted(path) ==
    /\ coll_dir /= "new"
    /\ query = NoQuery
    /\ resp' = Response(path,
                        IF coll_dir = "None" \/ envDir /= "dir" THEN {} ELSE listdir,
                        IF coll_dir = "None" THEN not_set(Route(path))
                        ELSE IF envDir /= "dir" THEN [kind |-> "raise"]
                        ELSE scan(Route(path), listdir))
    /\ files' = IF coll_dir = "None" \/ envDir /= "dir" \/ Route(path) /= "health"
                THEN files
                ELSE [f \in FileNames |->
                        IF files[f].kind = "snap"
                        THEN Snap(health_data(files[f].data))
                        ELSE files[f]]
    /\ UNCHANGED <<now, envDir, envPeriod, checkerVars, coll_dir, query>>

\* GET path with nothing interleaved between os.listdir and the reads
get(path) ==
    /\ coll_dir /= "new"
    /\ query = NoQuery
    /\ resp' = Response(path,
                        IF coll_dir = "None" \/ envDir /= "dir" THEN {} ELSE listdir,
                        IF coll_dir = "None" THEN not_set(Route(path))
                        ELSE IF envDir /= "dir" THEN [kind |-> "raise"]
                        ELSE scan(Route(path), listdir))
    /\ UNCHANGED <<now, envDir, envPeriod, files, checkerVars, coll_dir, query>>

\* ------------------------------------------------------------ environment

Advance ==
    /\ now < Epoch + MaxTime
    /\ now' = now + 1
    /\ resp' = NoResp
    /\ UNCHANGED <<envDir, envPeriod, files, checkerVars, coll_dir, query>>

\* a snapshot as another process's Checker (one probe) writes it
OtherSnapshot(name, passed, alive, tmo) ==
    LET probed == <<run_check(ProbeName(1), [kind |-> "return", passed |-> passed,
                                        output |-> IF passed THEN "ok" ELSE "bad"])>>
        rs == IF tmo > 0
              THEN Append(probed, [checker |-> name \o "-periodic-checkin",
                                   output |-> "", passed |-> TRUE])
              ELSE probed
    IN json_output_handler(name, rs, reduce(rs, TRUE), alive, tmo)

\* the snapshot of a healthy, live contributor
HealthyOther == {Snap(OtherSnapshot("B", TRUE, TRUE, 0))}

\* anything a file of the directory may hold
StoreContents ==
    {Garbage, Undecodable, JsonOther, Subdir, Torn}
    \cup {Snap(OtherSnapshot("S", s, l, t)) :
            s \in BOOLEAN, l \in BOOLEAN, t \in TimeoutValues}

EnvWrite(f, content) ==
    /\ envDir = "dir"
    /\ files[f] = Absent
    /\ files' = [files EXCEPT ![f] = content]
    /\ resp' = NoResp
    /\ UNCHANGED <<now, envDir, envPeriod, checkerVars, coll_dir, query>>

EnvRemove(f) ==
    /\ files[f] /= Absent
    /\ files' = [files EXCEPT ![f] = Absent]
    /\ resp' = NoResp
    /\ UNCHANGED <<now, envDir, envPeriod, checkerVars, coll_dir, query>>

RemoveDir ==
    /\ envDir = "dir"
    /\ envDir' = "missing"
    /\ files' = [f \in FileNames |-> Absent]
    /\ resp' = NoResp
    /\ UNCHANGED <<now, envPeriod, checkerVars, coll_dir, query>>

MakeDir ==
    /\ envDir = "missing"
    /\ envDir' = "dir"
    /\ resp' = NoResp
    /\ UNCHANGED <<now, envPeriod, files, checkerVars, coll_dir, query>>

InitChecker ==
    /\ pc = [p \in Checkers |-> "new"]
    /\ timeout = [p \in Checkers |-> 0]
    /\ dump_dir = [p \in Checkers |-> "None"]
    /\ checks = [p \in Checkers |-> <<>>]
    /\ latest_checkin = [p \in Checkers |-> 0]
    /\ liveness = [p \in Checkers |-> FALSE]
    /\ stop_event = [p \in Checkers |-> FALSE]
    /\ calls = [p \in Checkers |-> <<>>]
    /\ message = [p \in Checkers |-> NoMessage]

InitStore ==
    /\ now = Epoch
    /\ envDir \in {"unset", "missing", "notdir", "dir"}
    /\ files = [f \in FileNames |-> Absent]
    /\ query = NoQuery
    /\ resp = NoResp

\* no Checker and no Collector constructed yet
InitNew ==
    /\ InitStore /\ InitChecker
    /\ envPeriod \in {"unset", "5"}
    /\ coll_dir = "new"

\* the serving process has constructed its Collector; the run period is left
\* to its default, the configuration in which ticks repeat
Init ==
    /\ InitStore /\ InitChecker
    /\ envPeriod = "unset"
    /\ coll_dir = InitDumpDir

\* the probe behaviours the whole-system specification draws from
SystemOutcomes == {o \in ProbeOutcomes : o.kind = "raise" \/ (o.kind = "return" /\ o.passed)}

\* The whole system: one Checker step by step, beside a healthy contributor
\* and a Collector whose requests are not interleaved with other steps.
Next ==
    \/ \E p \in Procs, t \in TimeoutValues : init_check(p, t)
    \/ \E p \in Procs : add_check(p, ProbeName(Len(checks[p]) + 1))
    \/ \E p \in Procs : stop(p)
    \/ \E p \in Procs : healthy(p)
    \/ \E p \in Procs : live(p)
    \/ \E p \in Procs : run_exit(p)
    \/ \E p \in Procs : \E o \in [1..Len(checks[p]) -> SystemOutcomes] : run_check_health(p, o)
    \/ \E p \in Procs : check_health_dump(p)
    \/ \E path \in Paths : get(path)
    \/ Advance
    \/ \E f \in ForeignFiles, c \in HealthyOther : EnvWrite(f, c)
    \/ \E f \in FileNames : EnvRemove(f)
    \/ RemoveDir

Spec == Init /\ [][Next]_vars

\* One Checker alone, its probes drawn from every behaviour.
NextChecker ==
    \/ \E p \in Procs, t \in TimeoutValues : init_check(p, t)
    \/ \E p \in Procs : add_check(p, ProbeName(Len(checks[p]) + 1))
    \/ \E p \in Procs : stop(p)
    \/ \E p \in Procs : healthy(p)
    \/ \E p \in Procs : live(p)
    \/ \E p \in Procs : run_exit(p)
    \/ \E p \in Procs : \E o \in [1..Len(checks[p]) -> ProbeOutcomes] : run_check_health(p, o)
    \/ \E p \in Procs : check_health_dump(p)
    \/ \E p \in Procs : run_idle(p)
    \/ \E p \in Procs : run_wake(p)
    \/ Advance

SpecChecker == InitNew /\ [][NextChecker]_vars

\* The Collector over a directory whose files the environment writes (other
\* processes' snapshots and anything else), each request split at os.listdir.
NextStore ==
    \/ HealthCollector
    \/ \E path \in Paths : get_listdir(path)
    \/ get_scan
    \/ Advance
    \/ \E f \in FileNames, c \in StoreContents : EnvWrite(f, c)
    \/ \E f \in FileNames : EnvRemove(f)
    \/ RemoveDir
    \/ MakeDir

SpecStore == InitNew /\ [][NextStore]_vars

\* the probes that return a pair json.dump can write
ReturningOutcomes ==
    {o \in ProbeOutcomes : o.kind = "return" /\ o.output /= Unserializable}

\* One Checker through its life: constructed, started and stopped by
\* separate calls, with or without a dump directory, which may appear late.
NextLife ==
    \/ \E p \in Procs, t \in TimeoutValues : create_health_check(p, t)
    \/ \E p \in Procs : start(p)
    \/ \E p \in Procs : add_check(p, ProbeName(Len(checks[p]) + 1))
    \/ \E p \in Procs : stop(p)
    \/ \E p \in Procs : run_exit(p)
    \/ \E p \in Procs : \E o \in [1..Len(checks[p]) -> ReturningOutcomes] : run_check_health(p, o)
    \/ \E p \in Procs : check_health_dump(p)
    \/ \E p \in Procs : run_idle(p)
    \/ \E p \in Procs : run_wake(p)
    \/ MakeDir

SpecLife == InitNew /\ [][NextLife]_vars

\* One process that may call init_check a second time: the module-level
\* calls reach the object THREAD names, the thread of every started object
\* runs.
NextTwice ==
    \/ \E p \in Procs, t \in TimeoutValues : init_check(p, t)
    \/ \E p \in Procs, t \in TimeoutValues :
          Constructed(p) /\ init_check(Replacement(p), t)
    \/ \E p \in Procs :
          add_check(THREAD(p), ProbeName(Len(checks[THREAD(p)]) + 1))
    \/ \E p \in Procs : healthy(THREAD(p))
    \/ \E p \in Procs : live(THREAD(p))
    \/ \E c \in Checkers : \E o \in [1..Len(checks[c]) -> ReturningOutcomes] : run_check_health(c, o)
    \/ \E c \in Checkers : check_health_dump(c)
    \/ \E c \in Checkers : run_idle(c)
    \/ \E c \in Checkers : run_wake(c)

SpecTwice == InitNew /\ [][NextTwice]_vars

\* the timeout of the paced Checker: long enough for the clock to move
\* between two of its snapshots
PacedTimeouts == {2}

\* the probes that pass
PassingOutcomes == {o \in ReturningOutcomes : o.passed}

\* time.time() of the latest snapshot a Checker has stamped: the one it is
\* writing, or the one in its file
LastTimestamp(p) ==
    IF pc[p] = "writing" THEN message[p].timestamp
    ELSE IF files[FileOf(p)].kind = "snap" THEN files[FileOf(p)].data.timestamp
    ELSE now

\* The pace of a running Checker with a timeout and of its process: the
\* latest check-in is never older than the timeout, and the clock does not
\* reach the latest snapshot's timestamp plus the timeout before the next
\* snapshot is stamped.
Paced ==
    \A p \in Procs :
        (pc[p] \in {"wait", "writing"} /\ timeout[p] > 0) =>
            /\ now - latest_checkin[p] <= timeout[p]
            /\ now - LastTimestamp(p) < timeout[p]

\* One Checker with a timeout and passing probes, constructed, checked in
\* and then started by its process, which keeps the pace (the thread starts
\* and the clock moves only within it); the Collector answers requests
\* beside it.
NextPaced ==
    \/ \E p \in Procs, t \in PacedTimeouts : create_health_check(p, t)
    \/ \E p \in Procs : start(p) /\ Paced'
    \/ \E p \in Procs : add_check(p, ProbeName(Len(checks[p]) + 1))
    \/ \E p \in Procs : healthy(p)
    \/ \E p \in Procs : \E o \in [1..Len(checks[p]) -> PassingOutcomes] : run_check_health(p, o)
    \/ \E p \in Procs : check_health_dump(p)
    \/ \E path \in Paths : get(path)
    \/ Advance /\ Paced'

SpecPaced == Init /\ [][NextPaced]_vars

\* ------------------------------------------------------------------ claims

CheckinName(p) == Prefix(p) \o "-periodic-checkin"
\* the files that contribute to a request: listed, and a complete snapshot
\* when read (a file caught torn contributes nothing to that request)
SnapshotFiles(listing) == {f \in listing : files[f].kind = "snap"}
Age(d) == now - d.timestamp

\* C1: health() over parseable snapshots: a snapshot with timeout 0
\* contributes its stored status, one with timeout > 0 contributes (stored
\* status and age < timeout), strictly, and the overall status is the AND of
\* the contributions.
C1_HealthAdjustsAndReduces ==
    (resp.kind = "return" /\ resp.op = "health" /\ coll_dir = "dir") =>
        LET rs == resp.result.report.results
            parsed == SnapshotFiles(resp.listing)
        IN /\ DOMAIN rs = parsed
           /\ \A f \in parsed :
                LET d == files[f].data
                IN /\ d.timeout = 0 => rs[f].status = d.status
                   /\ d.timeout > 0 => rs[f].status = (d.status /\ Age(d) < d.timeout)
           /\ resp.result.status = (\A f \in parsed : rs[f].status)

\* a snapshot stored healthy, read at an age exactly equal to its timeout
C1_Witness ==
    /\ resp.kind = "return" /\ resp.op = "health" /\ coll_dir = "dir"
    /\ \E f \in SnapshotFiles(resp.listing) :
         /\ files[f].data.timeout > 0
         /\ files[f].data.status
         /\ Age(files[f].data) = files[f].data.timeout
         /\ ~resp.result.report.results[f].status
    /\ ~resp.result.status

\* C2: every snapshot a Checker writes has status = AND of the passed flags
\* of its own results, which are one per registered probe in registration
\* order plus, exactly when timeout > 0, the periodic check-in result.
C2_StatusIsAndOfResults ==
    [][\A p \in Procs :
         /\ (pc[p] = "wait" /\ pc'[p] = "writing") =>
                Len(calls'[p]) = Len(checks[p])
         /\ (pc[p] = "writing" /\ files'[FileOf(p)] /= files[FileOf(p)]) =>
                /\ files'[FileOf(p)].kind = "snap"
                /\ LET d == files'[FileOf(p)].data
                       n == Len(calls[p])
                   IN /\ d.status = (\A i \in 1..Len(d.results) : d.results[i].passed)
                      /\ Len(d.results) = n + (IF timeout[p] > 0 THEN 1 ELSE 0)
                      /\ \A i \in 1..n : d.results[i].checker = checks[p][i]
                      /\ timeout[p] > 0 => d.results[n + 1].checker = CheckinName(p)
                      /\ Len(d.results) = 0 => d.status]_vars

\* a snapshot of two passing probes whose check-in failed
C2_Witness ==
    \E p \in Procs :
        /\ files[FileOf(p)].kind = "snap"
        /\ LET d == files[FileOf(p)].data
           IN /\ Len(d.results) = 3
              /\ d.results[1].passed /\ d.results[2].passed
              /\ ~d.results[3].passed
              /\ ~d.status

C4_RaisingProbeIsRecorded ==
    [][\A p \in Procs :
         (pc[p] = "wait" /\ pc'[p] = "writing") =>
            /\ Len(calls'[p]) = Len(checks[p])
            /\ Len(message'[p].results) >= Len(checks[p])
            /\ \A i \in 1..Len(checks[p]) :
                 /\ message'[p].results[i].checker = checks[p][i]
                 /\ calls'[p][i].kind = "raise" =>
                        /\ message'[p].results[i].passed = FALSE
                        /\ message'[p].results[i].output = calls'[p][i].text
                 /\ (calls'[p][i].kind = "return") =>
                        /\ message'[p].results[i].passed = calls'[p][i].passed
                        /\ message'[p].results[i].output = calls'[p][i].output]_vars

\* the first of two probes raised, the second still ran and passed
C4_Witness ==
    \E p \in Procs :
        /\ pc[p] = "writing"
        /\ Len(calls[p]) = 2
        /\ calls[p][1].kind = "raise"
        /\ calls[p][2].kind = "return"
        /\ message[p].results[1].output = "boom"
        /\ message[p].results[2].passed

\* C5: no misbehaving probe aborts the tick or ends the loop: a tick in
\* flight always ends by publishing its complete snapshot and going back to
\* the wait.
C5_TickAlwaysPublishes ==
    [][\A p \in Procs :
         (pc[p] = "writing" /\ pc'[p] /= "writing" /\ ~WaitRaises(p)) =>
            /\ pc'[p] = "wait"
            /\ files'[FileOf(p)] = Snap(message[p])]_vars

C7_NeverRaises == resp.kind /= "raise"

\* C8: a file whose content cannot be parsed (bytes that are no JSON, or a
\* partial file) is skipped: the request returns what the parseable
\* snapshots alone give.
C8_UnparseableSkipped ==
    (/\ resp.kind /= "none" /\ coll_dir = "dir"
     /\ \A f \in resp.listing :
          files[f].kind \in {"snap", "torn", "garbage", "undecodable"}
     /\ \E f \in resp.listing : files[f].kind /= "snap")
    => /\ resp.kind = "return"
       /\ resp.op = "health" =>
            /\ DOMAIN resp.result.report.results = SnapshotFiles(resp.listing)
            /\ resp.result.status =
                 (\A f \in SnapshotFiles(resp.listing) :
                     resp.result.report.results[f].status)
       /\ resp.op = "liveness" =>
            resp.result.status =
                 (\A f \in SnapshotFiles(resp.listing) : files[f].data.liveness)

\* C9: a Collector constructed while the directory is unset, missing or not
\* a directory answers every health() and liveness() with the failure
\* result, without scanning, for its lifetime; a Collector with a configured
\* directory that lists no file answers health() with success.
C9_NotSetFailsEmptySucceeds ==
    [][/\ (coll_dir = "new" /\ coll_dir' /= "new") =>
              (coll_dir' = "None" <=> envDir /= "dir")
       /\ coll_dir = "None" => coll_dir' = "None"
       /\ (coll_dir = "None" /\ resp'.kind /= "none") =>
              /\ resp'.kind = "return"
              /\ resp'.result.status = FALSE
              /\ resp'.result.report.message = "PY_HEALTH_MULTIPROC_DIR not set"
              /\ resp'.listing = {}
              /\ query' = NoQuery /\ query = NoQuery
       /\ (query /= NoQuery /\ query.listing = {} /\ resp'.kind /= "none"
           /\ resp'.op = "health") =>
              /\ resp'.kind = "return"
              /\ resp'.result.status = TRUE
              /\ resp'.result.report.status = "success"]_vars

\* the directory appeared after construction and the answer is still the
\* failure result
C9_Witness ==
    /\ coll_dir = "None"
    /\ envDir = "dir"
    /\ resp.kind = "return"
    /\ resp.op = "health"
    /\ resp.result.status = FALSE

\* C10: GET /healthcheck and GET /liveness answer 200 exactly when the
\* operation returned true and 500 exactly when it returned false, with the
\* operation's report as JSON body; the health report holds one entry for
\* every parseable snapshot, the unhealthy ones included.
C10_HttpMapsStatusAndReport ==
    resp.kind = "return" =>
        /\ resp.path = "/healthcheck" => resp.op = "health"
        /\ resp.path = "/liveness" => resp.op = "liveness"
        /\ resp.http.code = "200 OK" <=> resp.result.status = TRUE
        /\ resp.http.code = "500 Internal Server Error" <=> resp.result.status = FALSE
        /\ resp.http.body = [json |-> resp.result.report]
        /\ (resp.op = "health" /\ coll_dir = "dir") =>
               DOMAIN resp.result.report.results = SnapshotFiles(resp.listing)
        /\ (resp.op = "liveness" /\ coll_dir = "dir") =>
               resp.result.report.liveness = resp.result.status

\* one healthy and one unhealthy snapshot, both live: /healthcheck is 500
\* with both in the body
C10_Witness ==
    /\ resp.kind = "return" /\ resp.path = "/healthcheck" /\ coll_dir = "dir"
    /\ resp.http.code = "500 Internal Server Error"
    /\ \E f, g \in DOMAIN resp.http.body.json.results :
         LET a == resp.http.body.json.results[f]
             b == resp.http.body.json.results[g]
         IN /\ a.status /\ ~b.status
            /\ a.liveness /\ b.liveness
            /\ a.timeout = 0 /\ b.timeout = 0

\* the positions of a thread inside the loop of run
Running == {"wait", "writing", "idle"}

\* C11: start() on a Checker that is already running returns normally and
\* changes nothing: no second loop, the running loop and its state as they
\* were.
C11_StartIdempotent ==
    [][\A p \in Procs :
         (pc[p] \in Running /\ resp'.kind /= "none" /\ resp'.op = "start") =>
            /\ resp'.kind = "return"
            /\ UNCHANGED <<checkerVars, files>>]_vars

\* C12: whatever the process calls, at most one tick loop runs in it: no two
\* ticks are in flight together and the process's snapshot file has one
\* writer.
C12_SingleLoop ==
    \A c, d \in Checkers :
        (Pid(c) = Pid(d) /\ FileOf(c) = FileOf(d)
         /\ pc[c] \in Running /\ pc[d] \in Running) => c = d

\* C13: stop() never interrupts a tick: a tick in flight ends by publishing
\* its snapshot, stopped or not; once stop() was called no new tick begins;
\* and stop() on a Checker that is not running is a no-op, so that a Checker
\* stopped before start() enters its loop with ticks still to come.
C13_StopNeverInterrupts ==
    [][\A p \in Procs :
         /\ (pc[p] = "writing" /\ pc'[p] /= "writing") =>
                files'[FileOf(p)] = Snap(message[p])
         /\ (stop_event[p] /\ pc[p] = "wait") => pc'[p] \in {"wait", "exited"}
         /\ (pc[p] = "created" /\ pc'[p] = "wait") => ~stop_event'[p]]_vars

\* C14: a Checker constructed while the shared directory is unset, missing
\* or not a directory has persistence off, and never writes its snapshot
\* file afterwards, even once the directory exists; each of its ticks still
\* invokes every registered probe.
C14_NoDirStillProbes ==
    [][\A p \in Procs :
         /\ (pc[p] = "new" /\ pc'[p] /= "new") =>
                (dump_dir'[p] = "None" <=> envDir /= "dir")
         /\ (Constructed(p) /\ dump_dir[p] = "None") =>
                /\ dump_dir'[p] = "None"
                /\ files'[FileOf(p)] = files[FileOf(p)]
                /\ (pc[p] = "wait" /\ pc'[p] \in {"idle", "writing"}) =>
                       Len(calls'[p]) = Len(checks[p])]_vars

\* C15: a tick of a Checker with timeout > 0 ends its results with the one
\* result named "<name>-periodic-checkin", passed exactly when
\* now - lastCheckIn <= timeout, where lastCheckIn is the time of the latest
\* healthy() and 0 before any, so that a Checker that never checked in
\* publishes status false; with timeout = 0 there is no such result and the
\* status is the AND of the probes alone.
C15_CheckinResult ==
    [][\A p \in Procs :
         /\ latest_checkin'[p] /= latest_checkin[p] => latest_checkin'[p] = now
         /\ (pc[p] = "wait" /\ pc'[p] = "writing") =>
              LET rs == message'[p].results
                  n == Len(checks[p])
              IN /\ \A i \in 1..n : rs[i].checker /= CheckinName(p)
                 /\ timeout[p] > 0 =>
                      /\ Len(rs) = n + 1
                      /\ rs[n + 1].checker = CheckinName(p)
                      /\ rs[n + 1].passed = (now - latest_checkin[p] <= timeout[p])
                      /\ latest_checkin[p] = 0 => message'[p].status = FALSE
                 /\ timeout[p] = 0 =>
                      /\ Len(rs) = n
                      /\ message'[p].status = (\A i \in 1..n : rs[i].passed)]_vars

\* a tick whose latest check-in is exactly `timeout` old, and passes
C15_Witness ==
    \E p \in Procs :
        /\ pc[p] = "writing"
        /\ timeout[p] > 0
        /\ now - latest_checkin[p] = timeout[p]
        /\ message[p].timestamp = now
        /\ message[p].results[Len(message[p].results)].checker = CheckinName(p)
        /\ message[p].results[Len(message[p].results)].passed
        /\ message[p].status

\* C16: a started Checker with a valid shared directory, whose probes all
\* return and which is never stopped, stays in its loop: every tick
\* publishes its snapshot and goes through the wait to the next tick,
\* whether PY_HEALTH_RUN_PERIOD is absent or set.
C16_KeepsTicking ==
    [][\A p \in Procs :
         (pc[p] \in Running /\ dump_dir[p] = "dir" /\ envDir = "dir"
          /\ ~stop_event[p]) =>
            /\ pc'[p] \in Running
            /\ (pc[p] = "writing" /\ pc'[p] /= "writing") =>
                   /\ pc'[p] = "wait"
                   /\ files'[FileOf(p)] = Snap(message[p])]_vars

\* the positions of a thread that has left the loop of run
Ended == {"exited", "crashed"}

\* C17: health() and liveness() leave the store as it is (the adjusted
\* status is in the report only), no operation of a Checker removes a file,
\* and once its thread has ended a Checker changes no file any more.
C17_StoreFrame ==
    [][/\ resp'.kind /= "none" => (files' = files /\ envDir' = envDir)
       /\ checkerVars' /= checkerVars =>
            /\ \A f \in FileNames : files[f] /= Absent => files'[f] /= Absent
            /\ \A p \in Procs : pc[p] \in Ended => files' = files]_vars

\* the snapshot of a Checker that has stopped is reported stale, and the
\* file still holds the status its writer stored
C17_Witness ==
    /\ resp.kind = "return" /\ resp.op = "health" /\ coll_dir = "dir"
    /\ \E p \in Procs :
         /\ pc[p] = "exited"
         /\ FileOf(p) \in SnapshotFiles(resp.listing)
         /\ files[FileOf(p)].data.status
         /\ ~resp.result.report.results[FileOf(p)].status

\* C18: a Checker whose thread has ended rewrites its snapshot no more, and
\* the snapshot it left counts in every later request that reads it: with
\* timeout > 0, health() at an age of `timeout` or more returns false,
\* whoever else is healthy; with timeout = 0 it contributes the status it
\* stored; liveness() uses the liveness flag it stored.
C18_LastSnapshotCounts ==
    [][\A p \in Procs :
         /\ pc[p] \in Ended => files'[FileOf(p)] \in {files[FileOf(p)], Absent}
         /\ (/\ resp'.kind /= "none" /\ coll_dir = "dir"
             /\ resp'.op \in {"health", "liveness"}
             /\ FileOf(p) \in SnapshotFiles(resp'.listing)) =>
              LET d == files[FileOf(p)].data
              IN /\ resp'.kind = "return"
                 /\ resp'.op = "health" =>
                      /\ (d.timeout > 0 /\ Age(d) >= d.timeout) =>
                             /\ ~resp'.result.report.results[FileOf(p)].status
                             /\ resp'.result.status = FALSE
                      /\ d.timeout = 0 =>
                             /\ resp'.result.report.results[FileOf(p)].status = d.status
                             /\ ~d.status => resp'.result.status = FALSE
                 /\ resp'.op = "liveness" =>
                      (~d.liveness => resp'.result.status = FALSE)]_vars

\* a stopped Checker's snapshot, stored healthy with a timeout, makes
\* health() fail beside the healthy snapshot of another pid
C18_Witness ==
    /\ resp.kind = "return" /\ resp.op = "health" /\ coll_dir = "dir"
    /\ resp.result.status = FALSE
    /\ \E p \in Procs :
         /\ pc[p] = "exited"
         /\ FileOf(p) \in SnapshotFiles(resp.listing)
         /\ files[FileOf(p)].data.status
         /\ files[FileOf(p)].data.liveness
         /\ files[FileOf(p)].data.timeout > 0
         /\ Age(files[FileOf(p)].data) >= files[FileOf(p)].data.timeout
    /\ \E f \in ForeignFiles :
         /\ f \in SnapshotFiles(resp.listing)
         /\ files[f].data.status
         /\ resp.result.report.results[f].status

====
